---- MODULE Spec2Model ----
(***************************************************************************)
(* Model of src/main.py: the WhatsApp webhook of the dental-clinic bot,    *)
(* its two store functions (get_or_create_conversation,                    *)
(* update_conversation) and the "conversations" table they work on.        *)
(*                                                                         *)
(* Every database round trip and every call to an external service is one  *)
(* step of a request, so that concurrent requests interleave exactly where *)
(* the handler can be suspended or where another worker can run.           *)
(*                                                                         *)
(* Environment assumptions (library code, not part of src/):               *)
(*  - requests are served concurrently (several server processes share     *)
(*    the database), so two requests interleave at every round trip;       *)
(*  - the table's primary key rejects a second INSERT of the same          *)
(*    phone_number (main.py:76);                                           *)
(*  - db.commit() writes every attribute that was assigned in the session; *)
(*  - any call to the store, DeepSeek or Twilio may raise;                 *)
(*  - datetime.now() never goes backwards.                                 *)
(* The table may hold rows written by earlier runs of the program.         *)
(***************************************************************************)
EXTENDS Integers, Sequences, FiniteSets, TLC

(* ---------- bounds of the model ---------- *)
NumReq == 2          \* number of inbound requests
MaxTicks == 1        \* how far the wall clock advances
MaxHistLen == 22     \* longest history given to the stand-alone history window

(* ---------- program constants ---------- *)
HistoryCap == 20     \* history[-20:]
RecentN == 5         \* history[-5:]

Requests == 1..NumReq

None == "None"       \* Python's None

PhoneA == "whatsapp:+521000"
Phones == {PhoneA}
Froms == Phones \cup {""}

(* An utterance is a sequence of words; the word " " stands for padding    *)
(* whitespace, words are otherwise separated by single blanks.             *)
RawBodies ==
  { <<>>,
    <<" ">>,
    <<" ", "hola", " ">>,
    <<"me", "llamo", "Ana">>,
    <<"soy", "Bob">> }

\* texts the provider can return without failing
Replies == {"", "ok"}

(* ---------- pure helpers ---------- *)

RECURSIVE LStrip(_)
LStrip(s) == IF s # <<>> /\ Head(s) = " " THEN LStrip(Tail(s)) ELSE s

RECURSIVE RStrip(_)
RStrip(s) ==
  IF s # <<>> /\ s[Len(s)] = " " THEN RStrip(SubSeq(s, 1, Len(s) - 1)) ELSE s

\* a handler that forgets .strip()
Strip_NoTrim(s) == s

\* str.strip()
Strip(s) == RStrip(LStrip(s))

\* Python slice s[-n:]
LastN(s, n) == IF Len(s) <= n THEN s ELSE SubSeq(s, Len(s) - n + 1, Len(s))

\* Python truthiness of a str-or-None value
TruthyStr(v) == v # None /\ v # ""

\* Python truthiness of a list (the utterance is a list of words here)
TruthySeq(s) == Len(s) > 0

\* Python truthiness of a dict
TruthyDict(d) == DOMAIN d # {}

\* dict.get(key, default)
DictGet(d, k, default) == IF k \in DOMAIN d THEN d[k] ELSE default

(* ---------- name detection (main.py:220-233) ---------- *)

\* the four regular expressions, in priority order, as keyword prefixes
name_patterns ==
  << <<"me", "llamo">>, <<"mi", "nombre", "es">>, <<"soy">>, <<"llamo">> >>

\* the capture group ([A-Za-z...]+) accepts a word of letters
IsLetters(w) == w # " "

\* the pattern matches with its first keyword at word i
MatchAt(words, i, kw) ==
  /\ i + Len(kw) <= Len(words)
  /\ SubSeq(words, i, i + Len(kw) - 1) = kw
  /\ IsLetters(words[i + Len(kw)])

\* re.search: leftmost match of one pattern, 0 when there is none
SearchPattern(words, kw) ==
  LET hits == {i \in 1..Len(words) : MatchAt(words, i, kw)}
  IN IF hits = {} THEN 0 ELSE CHOOSE i \in hits : \A j \in hits : i <= j

\* the for loop over name_patterns with its break: first pattern that matches
DetectName(words) ==
  LET ok == {p \in 1..Len(name_patterns) :
               SearchPattern(words, name_patterns[p]) # 0}
  IN IF ok = {} THEN None
     ELSE LET p == CHOOSE q \in ok : \A q2 \in ok : q <= q2
              kw == name_patterns[p]
          IN words[SearchPattern(words, kw) + Len(kw)]

\* user_data after the "Detectar nombre" block
ResolveIdentity(ud, words) ==
  IF ~TruthyStr(DictGet(ud, "name", None)) /\ DetectName(words) # None
  THEN [k \in (DOMAIN ud) \cup {"name"} |->
          IF k = "name" THEN DetectName(words) ELSE ud[k]]
  ELSE ud

(* ---------- prompt (main.py:235-267) ---------- *)

\* a history block made of the oldest turns
HistoryText_Oldest(history) ==
  [i \in 1..Len(LastN(history, RecentN)) |->
     << history[i].user, history[i].assistant >>]

\* history_text: one (Paciente, Asistente) pair per turn of history[-5:]
HistoryText(history) ==
  [i \in 1..Len(LastN(history, RecentN)) |->
     << LastN(history, RecentN)[i].user, LastN(history, RecentN)[i].assistant >>]

\* the variable parts of system_prompt
SystemPrompt(ud, phone, history) ==
  [ nombre |-> DictGet(ud, "name", "No proporcionado"),
    telefono |-> phone,
    historial |-> HistoryText(history) ]

(* ---------- history window (main.py:146-152) ---------- *)

NewTurn(msg, resp, ts) == [user |-> msg, assistant |-> resp, timestamp |-> ts]

\* an append that never evicts
AppendTurn_NoEvict(history, turn) == Append(history, turn)

\* an append that evicts before it appends
AppendTurn_EvictFirst(history, turn) ==
  Append(LastN(history, HistoryCap), turn)

\* an append that puts the new turn in front
AppendTurn_Prepends(history, turn) ==
  LastN(<<turn>> \o history, HistoryCap)

\* history.append(turn); history[-20:]
AppendTurn(history, turn) == LastN(Append(history, turn), HistoryCap)

(* ---------- state ---------- *)

VARIABLES
  db,            \* table "conversations": phone_number -> row
  now,           \* the wall clock read by datetime.now()
  pc,            \* where each request stands in whatsapp_webhook
  form_body,     \* Body as posted
  user_message,  \* Body, stripped
  from_number,   \* From
  conversation,  \* the object returned by get_or_create_conversation
  user_data,     \* the handler's copy of the identity
  ai_response,   \* the text returned by DeepSeek
  pend,          \* update_conversation: the loaded row with its assignments
  response,      \* what the handler returned
  raised,        \* the exception the handler caught and logged
  store_log,     \* store functions each request has called
  llm_log,       \* system prompts each request has sent to DeepSeek
  twilio_log,    \* messages each request has handed to Twilio
  h_in, t_in,    \* history window on its own: the inputs
  h_out          \* history window on its own: the result, once applied

vars == << db, now, pc, form_body, user_message, from_number, conversation,
           user_data, ai_response, pend, response, raised, store_log, llm_log,
           twilio_log, h_in, t_in, h_out >>

\* the variables of the stand-alone history window
fvars == << h_in, t_in, h_out >>

EmptyDict == [k \in {} |-> None]
EmptyTable == [k \in {} |-> None]

NoConversation == [user_data |-> EmptyDict, history |-> <<>>]
NoPend == [user_data |-> EmptyDict, ud_set |-> FALSE,
           history |-> <<>>, hist_set |-> FALSE]

Pending == [status |-> "pending", code |-> 0]
InvalidRequest == [status |-> "error", code |-> 400]
InternalError == [status |-> "error", code |-> 500]
Ok == [status |-> "ok", code |-> 200]

(* rows left in the table by earlier runs of the program *)
PreTurn(i, n) == NewTurn(<<"hola">>, "ok", i - n - 1)
PreHistory(n) == [i \in 1..n |-> PreTurn(i, n)]
PreRow(nm, n) ==
  [user_data |-> [name |-> nm, first_seen |-> 0 - n], history |-> PreHistory(n)]
PreTables ==
  { EmptyTable,
    [k \in {PhoneA} |-> PreRow(None, HistoryCap - 1)],
    [k \in {PhoneA} |-> PreRow("Ana", HistoryCap)] }

\* the requests' variables before any request has arrived
InitRequests ==
  /\ now = 0
  /\ pc = [r \in Requests |-> "idle"]
  /\ form_body = [r \in Requests |-> <<>>]
  /\ user_message = [r \in Requests |-> <<>>]
  /\ from_number = [r \in Requests |-> ""]
  /\ conversation = [r \in Requests |-> NoConversation]
  /\ user_data = [r \in Requests |-> EmptyDict]
  /\ ai_response = [r \in Requests |-> None]
  /\ pend = [r \in Requests |-> NoPend]
  /\ response = [r \in Requests |-> Pending]
  /\ raised = [r \in Requests |-> "none"]
  /\ store_log = [r \in Requests |-> <<>>]
  /\ llm_log = [r \in Requests |-> <<>>]
  /\ twilio_log = [r \in Requests |-> <<>>]

NotApplied == [applied |-> FALSE, history |-> <<>>]

Init ==
  /\ db \in PreTables
  /\ InitRequests
  /\ h_in = <<>>
  /\ t_in = PreTurn(0, 0)
  /\ h_out = NotApplied

(* ---------- the clock ---------- *)

Tick ==
  /\ now < MaxTicks
  /\ now' = now + 1
  /\ UNCHANGED << db, pc, form_body, user_message, from_number, conversation,
                  user_data, ai_response, pend, response, raised, store_log,
                  llm_log, twilio_log, fvars >>

(* ---------- whatsapp_webhook ---------- *)

\* the handler returns: its locals are gone, the response stays
Return(r, resp) ==
  /\ pc' = [pc EXCEPT ![r] = "done"]
  /\ response' = [response EXCEPT ![r] = resp]
  /\ conversation' = [conversation EXCEPT ![r] = NoConversation]
  /\ user_data' = [user_data EXCEPT ![r] = EmptyDict]
  /\ pend' = [pend EXCEPT ![r] = NoPend]

\* the except clause of the handler (main.py:303-305), e is what was raised
ExceptHandler(r, e) ==
  /\ Return(r, InternalError)
  /\ raised' = [raised EXCEPT ![r] = e]

\* a handler that swallows the load failure and goes on without a session
LoadFailed_Continues(r, e) ==
  /\ pc' = [pc EXCEPT ![r] = "loaded"]
  /\ raised' = [raised EXCEPT ![r] = e]
  /\ conversation' = [conversation EXCEPT ![r] = NoConversation]
  /\ UNCHANGED << response, user_data, pend >>

\* a handler that starts the load again when it raised
LoadFailed_Retries(r, e) ==
  /\ pc' = [pc EXCEPT ![r] = "goc_query"]
  /\ raised' = [raised EXCEPT ![r] = e]
  /\ UNCHANGED << response, conversation, user_data, pend >>

\* get_or_create_conversation raised (main.py:129-132): the handler's
\* except clause ends the request
LoadFailed(r, e) == ExceptHandler(r, e)

\* the handler goes on to its next step
Goto(r, label) ==
  /\ pc' = [pc EXCEPT ![r] = label]
  /\ UNCHANGED << response, raised >>

\* requests are numbered in the order they arrive
Arrived(r) == IF r = 1 THEN TRUE ELSE pc[r - 1] # "idle"

\* main.py:204-212: read the form, validate
Receive(r) ==
  /\ pc[r] = "idle"
  /\ Arrived(r)
  /\ \E raw \in RawBodies, f \in Froms :
       /\ form_body' = [form_body EXCEPT ![r] = raw]
       /\ user_message' = [user_message EXCEPT ![r] = Strip(raw)]
       /\ from_number' = [from_number EXCEPT ![r] = f]
       /\ IF ~TruthySeq(Strip(raw)) \/ ~TruthyStr(f)
          THEN Return(r, InvalidRequest) /\ UNCHANGED raised
          ELSE Goto(r, "goc_query")
               /\ UNCHANGED << conversation, user_data, pend >>
  /\ UNCHANGED fvars
  /\ UNCHANGED << db, now, ai_response, store_log, llm_log, twilio_log >>

\* get_or_create_conversation, main.py:113-117: the SELECT
GocQuery(r) ==
  /\ pc[r] = "goc_query"
  /\ store_log' = [store_log EXCEPT ![r] = Append(@, "get_or_create")]
  /\ \E ok \in BOOLEAN :
       IF ~ok
       THEN LoadFailed(r, "StorageError")
       ELSE IF from_number[r] \in DOMAIN db
            THEN /\ conversation' =
                      [conversation EXCEPT ![r] = db[from_number[r]]]
                 /\ Goto(r, "loaded")
                 /\ UNCHANGED << user_data, pend >>
            ELSE /\ Goto(r, "goc_insert")
                 /\ UNCHANGED << conversation, user_data, pend >>
  /\ UNCHANGED fvars
  /\ UNCHANGED << db, now, form_body, user_message, from_number, ai_response,
                  llm_log, twilio_log >>

\* the row built at main.py:118-122
NewConversation(ts) ==
  [user_data |-> [name |-> None, first_seen |-> ts], history |-> <<>>]

\* an INSERT that replaces the row of a key already present
InsertRow_Overwrites(table, key, row) ==
  [ok |-> TRUE,
   table |-> [k \in (DOMAIN table) \cup {key} |->
                IF k = key THEN row ELSE table[k]]]

\* INSERT of a row: the primary key (main.py:76) rejects a duplicate
InsertRow(table, key, row) ==
  IF key \in DOMAIN table
  THEN [ok |-> FALSE, table |-> table]
  ELSE [ok |-> TRUE,
        table |-> [k \in (DOMAIN table) \cup {key} |->
                     IF k = key THEN row ELSE table[k]]]

\* get_or_create_conversation, main.py:118-124: db.add, db.commit
GocInsert(r) ==
  /\ pc[r] = "goc_insert"
  /\ \E ok \in BOOLEAN :
       LET ins == InsertRow(db, from_number[r], NewConversation(now))
       IN IF ~ok \/ ~ins.ok
          THEN /\ LoadFailed(r, IF ~ok THEN "StorageError"
                                ELSE "IntegrityError")
               /\ UNCHANGED db
          ELSE /\ db' = ins.table
               /\ Goto(r, "goc_refresh")
               /\ UNCHANGED << conversation, user_data, pend >>
  /\ store_log' = [store_log EXCEPT ![r] = Append(@, "INSERT")]
  /\ UNCHANGED fvars
  /\ UNCHANGED << now, form_body, user_message, from_number, ai_response,
                  llm_log, twilio_log >>

\* get_or_create_conversation, main.py:125-128: db.refresh, return conv
GocRefresh(r) ==
  /\ pc[r] = "goc_refresh"
  /\ \E ok \in BOOLEAN :
       IF ~ok
       THEN LoadFailed(r, "StorageError")
       ELSE /\ conversation' = [conversation EXCEPT ![r] = db[from_number[r]]]
            /\ Goto(r, "loaded")
            /\ UNCHANGED << user_data, pend >>
  /\ UNCHANGED fvars
  /\ UNCHANGED << db, now, form_body, user_message, from_number, ai_response,
                  store_log, llm_log, twilio_log >>

\* main.py:216-233: the handler's identity, after name detection
HandlerIdentity(conv, words) ==
  ResolveIdentity(IF TruthyDict(conv.user_data) THEN conv.user_data
                  ELSE EmptyDict, words)

\* a handler that records the failed exchange in the history
ProviderFailed_SavesTurn(r) ==
  /\ ExceptHandler(r, "ProviderError")
  /\ UNCHANGED ai_response
  /\ db' = IF from_number[r] \in DOMAIN db
           THEN [db EXCEPT ![from_number[r]].history =
                   AppendTurn(@, NewTurn(user_message[r], "error", now))]
           ELSE db

\* main.py:271-279 raised, or the reply could not be read (main.py:281-282)
ProviderFailed(r) ==
  /\ ExceptHandler(r, "ProviderError")
  /\ UNCHANGED << db, ai_response >>

\* main.py:216-282: identity, prompt, the call to DeepSeek
CallProvider(r) ==
  /\ pc[r] = "loaded"
  /\ llm_log' = [llm_log EXCEPT ![r] =
       Append(@, SystemPrompt(HandlerIdentity(conversation[r], user_message[r]),
                              from_number[r], conversation[r].history))]
  /\ \/ ProviderFailed(r)
     \/ \E text \in Replies :
          /\ ai_response' = [ai_response EXCEPT ![r] = text]
          /\ user_data' = [user_data EXCEPT ![r] =
               HandlerIdentity(conversation[r], user_message[r])]
          /\ conversation' = [conversation EXCEPT ![r] = NoConversation]
          /\ Goto(r, "upd_query")
          /\ UNCHANGED << db, pend >>
  /\ UNCHANGED fvars
  /\ UNCHANGED << now, form_body, user_message, from_number, store_log,
                  twilio_log >>

\* update_conversation, main.py:141-152: the assignments made on the loaded row
StageUpdate(row, ud, msg, resp, ts) ==
  [ ud_set |-> TruthyDict(ud),
    user_data |-> IF TruthyDict(ud) THEN ud ELSE row.user_data,
    hist_set |-> TruthySeq(msg) /\ TruthyStr(resp),
    history |-> IF TruthySeq(msg) /\ TruthyStr(resp)
                THEN AppendTurn(row.history, NewTurn(msg, resp, ts))
                ELSE row.history ]

\* update_conversation, main.py:138-152: the SELECT and the assignments
UpdQuery(r) ==
  /\ pc[r] = "upd_query"
  /\ store_log' = [store_log EXCEPT ![r] = Append(@, "update_conversation")]
  /\ \E ok \in BOOLEAN :
       IF ~ok
       THEN ExceptHandler(r, "StorageError")
       ELSE IF from_number[r] \in DOMAIN db
            THEN /\ pend' = [pend EXCEPT ![r] =
                       StageUpdate(db[from_number[r]], user_data[r],
                                   user_message[r], ai_response[r], now)]
                 /\ Goto(r, "upd_commit")
                 /\ UNCHANGED << conversation, user_data >>
            ELSE /\ Goto(r, "send")
                 /\ UNCHANGED << conversation, user_data, pend >>
  /\ UNCHANGED fvars
  /\ UNCHANGED << db, now, form_body, user_message, from_number, ai_response,
                  llm_log, twilio_log >>

\* the row after the UPDATE issued by db.commit()
CommitRow(row, pd) ==
  [ user_data |-> IF pd.ud_set THEN pd.user_data ELSE row.user_data,
    history |-> IF pd.hist_set THEN pd.history ELSE row.history ]

\* a rollback that lets the identity through and drops only the turn
RolledBack_KeepsIdentity(row, pd) ==
  [ user_data |-> IF pd.ud_set THEN pd.user_data ELSE row.user_data,
    history |-> row.history ]

\* the row after db.rollback() (main.py:157): no assignment reaches the table
RolledBack(row, pd) == row

\* update_conversation, main.py:154-160: db.commit, or rollback and raise
UpdCommit(r) ==
  /\ pc[r] = "upd_commit"
  /\ \E ok \in BOOLEAN :
       IF ~ok
       THEN /\ ExceptHandler(r, "StorageError")
            /\ db' = [db EXCEPT ![from_number[r]] = RolledBack(@, pend[r])]
       ELSE /\ db' = [db EXCEPT ![from_number[r]] = CommitRow(@, pend[r])]
            /\ pend' = [pend EXCEPT ![r] = NoPend]
            /\ Goto(r, "send")
            /\ UNCHANGED << conversation, user_data >>
  /\ UNCHANGED fvars
  /\ UNCHANGED << now, form_body, user_message, from_number, ai_response,
                  store_log, llm_log, twilio_log >>

\* a reply addressed to the bot's own number
ReplyMessage_ToSelf(r, accepted) ==
  [to |-> "whatsapp:+14155238886", body |-> ai_response[r],
   accepted |-> accepted]

\* the message handed to Twilio at main.py:294-298
ReplyMessage(r, accepted) ==
  [to |-> from_number[r], body |-> ai_response[r], accepted |-> accepted]

\* twilio_client.messages.create raised (main.py:294-298): the except clause
\* ends the request, the table is not touched
DeliveryFailed(r) ==
  /\ ExceptHandler(r, "DeliveryError")
  /\ UNCHANGED db

\* main.py:292-301: send the reply, return ok
Send(r) ==
  /\ pc[r] = "send"
  /\ \E ok \in BOOLEAN :
       /\ twilio_log' = [twilio_log EXCEPT ![r] = Append(@, ReplyMessage(r, ok))]
       /\ IF ~ok THEN DeliveryFailed(r)
          ELSE Return(r, Ok) /\ UNCHANGED << db, raised >>
  /\ UNCHANGED fvars
  /\ UNCHANGED << now, form_body, user_message, from_number, ai_response,
                  store_log, llm_log >>

Next ==
  \/ Tick
  \/ \E r \in Requests : Receive(r)
  \/ \E r \in Requests : GocQuery(r)
  \/ \E r \in Requests : GocInsert(r)
  \/ \E r \in Requests : GocRefresh(r)
  \/ \E r \in Requests : CallProvider(r)
  \/ \E r \in Requests : UpdQuery(r)
  \/ \E r \in Requests : UpdCommit(r)
  \/ \E r \in Requests : Send(r)

Spec == Init /\ [][Next]_vars

(* ---------- one request at a time ---------- *)

\* a request arrives only after the one before it has returned
ReceiveSeq(r) ==
  /\ IF r = 1 THEN TRUE ELSE pc[r - 1] = "done"
  /\ Receive(r)

NextSeq ==
  \/ Tick
  \/ \E r \in Requests : ReceiveSeq(r)
  \/ \E r \in Requests : GocQuery(r)
  \/ \E r \in Requests : GocInsert(r)
  \/ \E r \in Requests : GocRefresh(r)
  \/ \E r \in Requests : CallProvider(r)
  \/ \E r \in Requests : UpdQuery(r)
  \/ \E r \in Requests : UpdCommit(r)
  \/ \E r \in Requests : Send(r)

SpecSeq == Init /\ [][NextSeq]_vars

(* ---------- every call returns or raises ---------- *)

\* the steps of one request after it has been received
Step(r) ==
  \/ GocQuery(r)
  \/ GocInsert(r)
  \/ GocRefresh(r)
  \/ CallProvider(r)
  \/ UpdQuery(r)
  \/ UpdCommit(r)
  \/ Send(r)

\* no call of a received request blocks for ever
SpecLive == Spec /\ \A r \in Requests : WF_vars(Step(r))

TypeOK ==
  /\ DOMAIN db \subseteq Phones
  /\ now \in 0..MaxTicks
  /\ \A r \in Requests :
       pc[r] \in {"idle", "goc_query", "goc_insert", "goc_refresh", "loaded",
                  "upd_query", "upd_commit", "send", "done"}

(* ---------- the history window on its own ---------- *)

SampleTurn(i) == NewTurn(<<"hola">>, "ok", i)
SampleHistories ==
  { [i \in 1..n |-> SampleTurn(off + i)] : n \in 0..MaxHistLen, off \in {0, 3} }
SampleTurns ==
  { NewTurn(<<"soy", "Bob">>, "ok", 100), NewTurn(<<"hola">>, "ok", 50) }

InitWindow ==
  /\ db = EmptyTable
  /\ InitRequests
  /\ h_in \in SampleHistories
  /\ t_in \in SampleTurns
  /\ h_out = NotApplied

\* main.py:146-152 applied to (h_in, t_in)
ApplyAppendTurn ==
  /\ ~h_out.applied
  /\ h_out' = [applied |-> TRUE, history |-> AppendTurn(h_in, t_in)]
  /\ UNCHANGED << db, now, pc, form_body, user_message, from_number,
                  conversation, user_data, ai_response, pend, response, raised,
                  store_log, llm_log, twilio_log, h_in, t_in >>

NextWindow == ApplyAppendTurn

SpecWindow == InitWindow /\ [][NextWindow]_vars

(* ---------- properties ---------- *)

Range(seq) == {seq[i] : i \in 1..Len(seq)}

IsError(resp) == resp.status = "error"

\* the request's SELECT in get_or_create_conversation found no row
Missed(r) == pc[r] = "goc_insert" \/ "INSERT" \in Range(store_log[r])

\* get_or_create_conversation is over for the request
LoadOver(r) == pc[r] \in {"loaded", "upd_query", "upd_commit", "send", "done"}

\* C1: two concurrent get-or-create calls for a key without a session both
\* return a session and see the same identity seed
C1_ConcurrentGetOrCreate ==
  \A r1, r2 \in Requests :
    ( /\ r1 # r2
      /\ from_number[r1] = from_number[r2]
      /\ Missed(r1) /\ Missed(r2)
      /\ LoadOver(r1) /\ LoadOver(r2)
      /\ raised[r1] # "StorageError" /\ raised[r2] # "StorageError" )
    => /\ raised[r1] # "IntegrityError"
       /\ raised[r2] # "IntegrityError"
       /\ (pc[r1] = "loaded" /\ pc[r2] = "loaded"
             => conversation[r1].user_data = conversation[r2].user_data)

\* C2: once a persisted identity holds a name, no step changes that name
C2_NameNeverChanges ==
  [][\A k \in DOMAIN db :
       TruthyStr(db[k].user_data.name)
         => db'[k].user_data.name = db[k].user_data.name]_vars

\* C3: a request whose provider call failed has handed an apology for its
\* sender to the message sender, and ends with an error response
C3_ApologyOnProviderFailure ==
  \A r \in Requests :
    raised[r] = "ProviderError"
      => /\ IsError(response[r])
         /\ \E i \in 1..Len(twilio_log[r]) :
              twilio_log[r][i].to = from_number[r]

\* the request failed inside update_conversation
SaveFailed(r) ==
  /\ pc[r] = "done"
  /\ raised[r] = "StorageError"
  /\ "update_conversation" \in Range(store_log[r])

\* C4: a request whose save failed has still handed its generated reply to
\* the message sender
C4_SaveFailureNonFatal ==
  \A r \in Requests :
    SaveFailed(r)
      => \E i \in 1..Len(twilio_log[r]) :
           /\ twilio_log[r][i].to = from_number[r]
           /\ twilio_log[r][i].body = ai_response[r]

\* C5: the step in which the provider call fails ends the request with an
\* error response and leaves the table as it was, and that request never
\* calls update_conversation
C5_ProviderFailureKeepsHistory ==
  [][\A r \in Requests :
       raised'[r] = "ProviderError"
         => /\ IsError(response'[r])
            /\ pc'[r] = "done"
            /\ "update_conversation" \notin Range(store_log'[r])
            /\ (raised[r] # "ProviderError" => db' = db)]_vars

C5_Witness ==
  \E r \in Requests :
    /\ raised[r] = "ProviderError"
    /\ from_number[r] \in DOMAIN db
    /\ Len(db[from_number[r]].history) > 0

\* the posted utterance is empty once surrounding whitespace is removed
IsBlank(raw) == \A i \in 1..Len(raw) : raw[i] = " "

\* the request was posted with an empty utterance or an empty sender key
Invalid(r) == pc[r] # "idle" /\ (IsBlank(form_body[r]) \/ from_number[r] = "")

\* C6: a request with an empty utterance or sender key is answered with an
\* error in its first step, which leaves the table alone, and never calls
\* the store, the provider or the message sender
C6_InvalidRejectedWithoutEffect ==
  [][\A r \in Requests :
       Invalid(r)'
         => /\ pc'[r] = "done"
            /\ IsError(response'[r])
            /\ store_log'[r] = <<>>
            /\ llm_log'[r] = <<>>
            /\ twilio_log'[r] = <<>>
            /\ (pc[r] = "idle" => db' = db)]_vars

C6_Witness ==
  \E r \in Requests :
    /\ pc[r] = "done"
    /\ form_body[r] = <<" ">>
    /\ from_number[r] = PhoneA
    /\ response[r] = InvalidRequest

\* get_or_create_conversation raised for the request
LoadRaised(r) ==
  /\ raised[r] \in {"StorageError", "IntegrityError"}
  /\ "update_conversation" \notin Range(store_log[r])

\* C7: a request whose session load raised is over with an error response,
\* and has called neither the provider nor the message sender
C7_LoadFailureIsFatal ==
  \A r \in Requests :
    LoadRaised(r)
      => /\ pc[r] = "done"
         /\ IsError(response[r])
         /\ llm_log[r] = <<>>
         /\ twilio_log[r] = <<>>

C7_Witness ==
  \E r \in Requests :
    /\ LoadRaised(r)
    /\ raised[r] = "StorageError"
    /\ store_log[r] = <<"get_or_create">>

\* C8: every persisted history has at most 20 turns
C8_HistoryCapped ==
  \A k \in DOMAIN db : Len(db[k].history) <= HistoryCap

\* a full history whose oldest turn of the earlier runs has been evicted
C8_Witness ==
  \E k \in DOMAIN db :
    /\ Len(db[k].history) = HistoryCap
    /\ db[k].history[1].timestamp > 1 - HistoryCap
    /\ db[k].history[HistoryCap].user = <<"soy", "Bob">>

\* C9: appending t to a history H of 20 turns or more gives exactly 20
\* turns, the 19 most recent of H in order and then t; appending to a
\* shorter history gives H followed by t
C9_AppendTurnWindow ==
  h_out.applied
    => IF Len(h_in) >= HistoryCap
       THEN /\ Len(h_out.history) = HistoryCap
            /\ h_out.history =
                 SubSeq(h_in, Len(h_in) - (HistoryCap - 2), Len(h_in))
                   \o << t_in >>
       ELSE h_out.history = h_in \o << t_in >>

C9_Witness ==
  /\ h_out.applied
  /\ Len(h_in) > HistoryCap
  /\ h_out.history[HistoryCap] = t_in

\* C10: a request answered ok has had its generated reply, addressed to its
\* own sender key, accepted by the message sender; a request whose reply
\* was refused is over with an error response
C10_OkOnlyAfterDelivery ==
  \A r \in Requests :
    /\ response[r].status = "ok"
         => \E i \in 1..Len(twilio_log[r]) :
              twilio_log[r][i] = [to |-> from_number[r],
                                  body |-> ai_response[r],
                                  accepted |-> TRUE]
    /\ (\E i \in 1..Len(twilio_log[r]) : ~twilio_log[r][i].accepted)
         => /\ pc[r] = "done"
            /\ IsError(response[r])
            /\ raised[r] = "DeliveryError"

C10_Witness ==
  \E r1, r2 \in Requests :
    /\ response[r1] = Ok
    /\ raised[r2] = "DeliveryError"

\* the request is inside update_conversation and leaves its current step
SaveStep(r) == pc[r] \in {"upd_query", "upd_commit"} /\ pc'[r] # pc[r]

LoadStep(r) ==
  pc[r] \in {"goc_query", "goc_insert", "goc_refresh"} /\ pc'[r] # pc[r]

\* C12: no step removes a row; a step of get-or-create leaves every existing
\* row as it is, and a get-or-create that finds the row returns exactly it
C12_SessionKeptAndReturned ==
  [][/\ \A k \in DOMAIN db : k \in DOMAIN db'
     /\ \A r \in Requests :
          LoadStep(r)
            => /\ \A k \in DOMAIN db : db'[k] = db[k]
               /\ (pc[r] = "goc_query" /\ pc'[r] = "loaded"
                     => /\ from_number[r] \in DOMAIN db
                        /\ conversation'[r] = db[from_number[r]])]_vars

\* the second request got the session that the first one created and saved
C12_Witness ==
  /\ NumReq >= 2
  /\ response[1] = Ok
  /\ store_log[1] = <<"get_or_create", "INSERT", "update_conversation">>
  /\ pc[2] = "loaded"
  /\ store_log[2] = <<"get_or_create">>
  /\ Len(conversation[2].history) = 1
  /\ conversation[2] = db[from_number[2]]

\* the n-th request ended ok on key k after a provider reply, a save and a send
HandledOk(r, k) ==
  /\ pc[r] = "done"
  /\ response[r] = Ok
  /\ from_number[r] = k

\* C13: requests of one key handled one after another, all ended ok: the
\* first created the session, the later ones loaded it, the stored history
\* has one turn per request in handling order, and the prompt of each later
\* request showed the turns of the earlier ones
C13_SequentialHistory ==
  \A k \in Phones :
    ((\A r \in Requests : HandledOk(r, k))
       /\ "INSERT" \in Range(store_log[1]))
      => /\ \A r \in Requests \ {1} : store_log[r][1] = "get_or_create"
                                      /\ "INSERT" \notin Range(store_log[r])
         /\ k \in DOMAIN db
         /\ Len(db[k].history) =
              IF NumReq <= HistoryCap THEN NumReq ELSE HistoryCap
         /\ \A i \in 1..Len(db[k].history) :
              LET r == NumReq - Len(db[k].history) + i
              IN /\ db[k].history[i].user = user_message[r]
                 /\ db[k].history[i].assistant = ai_response[r]
         /\ \A r \in Requests \ {1} :
              /\ Len(llm_log[r]) = 1
              /\ Len(llm_log[r][1].historial) =
                   IF r - 1 <= RecentN THEN r - 1 ELSE RecentN
              /\ llm_log[r][1].historial[Len(llm_log[r][1].historial)] =
                   << user_message[r - 1], ai_response[r - 1] >>

\* number of entries of seq equal to x
Count(seq, x) == Cardinality({i \in 1..Len(seq) : seq[i] = x})

Terminal == {Ok, InvalidRequest, InternalError}

\* C14: a request has one outcome, set once when it ends, and an exception of
\* any step becomes the structured error response; the load, the provider
\* call, the save and the send are each made at most once per request; a
\* received request whose calls all return or raise does end
C14_OneOutcomeNoRetry ==
  /\ [](\A r \in Requests :
          /\ response[r] \in Terminal \cup {Pending}
          /\ (pc[r] = "done") <=> (response[r] \in Terminal)
          /\ (raised[r] # "none") => (response[r] = InternalError)
          /\ Count(store_log[r], "get_or_create") <= 1
          /\ Count(store_log[r], "INSERT") <= 1
          /\ Count(store_log[r], "update_conversation") <= 1
          /\ Len(llm_log[r]) <= 1
          /\ Len(twilio_log[r]) <= 1)
  /\ [][\A r \in Requests :
          response[r] # Pending
            => /\ response'[r] = response[r]
               /\ pc'[r] = "done"
               /\ store_log'[r] = store_log[r]
               /\ llm_log'[r] = llm_log[r]
               /\ twilio_log'[r] = twilio_log[r]]_vars
  /\ \A r \in Requests : (pc[r] # "idle") ~> (pc[r] = "done")

\* one request ended ok after all four calls, another ended with the error
\* response after its load raised
C14_Witness ==
  \E r1, r2 \in Requests :
    /\ response[r1] = Ok
    /\ Count(store_log[r1], "get_or_create") = 1
    /\ Count(store_log[r1], "update_conversation") = 1
    /\ Len(llm_log[r1]) = 1
    /\ Len(twilio_log[r1]) = 1
    /\ LoadRaised(r2)
    /\ response[r2] = InternalError

\* the request makes its call to the provider in this step
Prompts(r) == Len(llm_log'[r]) = Len(llm_log[r]) + 1

\* C15: the history block of a prompt is the last min(5, n) of the n turns
\* loaded for the request, oldest first; it is empty for a new session, and
\* the request goes on to the provider call all the same
C15_PromptShowsRecentTurns ==
  [][\A r \in Requests :
       Prompts(r)
         => LET h == conversation[r].history
                n == Len(h)
                m == IF n < RecentN THEN n ELSE RecentN
                blk == llm_log'[r][Len(llm_log'[r])].historial
            IN /\ Len(blk) = m
               /\ \A i \in 1..m :
                    blk[i] = << h[n - m + i].user, h[n - m + i].assistant >>
               /\ (n = 0 /\ raised'[r] = "none" => pc'[r] = "upd_query")]_vars

\* a request loaded twenty turns, the last one saved by the request before
\* it, and its prompt shows five turns ending with that one
C15_Witness ==
  \E r \in Requests :
    /\ Len(llm_log[r]) = 1
    /\ Len(llm_log[r][1].historial) = RecentN
    /\ llm_log[r][1].historial[RecentN] = << <<"soy", "Bob">>, "ok" >>
    /\ llm_log[r][1].historial[1] = << <<"hola">>, "ok" >>
    /\ Len(db[PhoneA].history) = HistoryCap

\* position of a turn of request r in the stored history of its key, or {}
TurnsOf(r) ==
  IF from_number[r] \in DOMAIN db
  THEN {i \in 1..Len(db[from_number[r]].history) :
          /\ db[from_number[r]].history[i].user = user_message[r]
          /\ db[from_number[r]].history[i].assistant = ai_response[r]
          /\ db[from_number[r]].history[i].timestamp >= 0}
  ELSE {}

\* the request ended ok and its save wrote a turn
SavedTurn(r) ==
  /\ pc[r] = "done"
  /\ response[r] = Ok
  /\ ai_response[r] # ""
  /\ ai_response[r] # None

\* C16: two requests of one key that both ended ok, each after a save that
\* wrote its turn, with fewer than 20 turns stored: the stored history holds a
\* turn of each
C16_BothTurnsKept ==
  \A r1, r2 \in Requests :
    (/\ r1 # r2
     /\ SavedTurn(r1)
     /\ SavedTurn(r2)
     /\ from_number[r1] = from_number[r2]
     /\ from_number[r1] \in DOMAIN db
     /\ Len(db[from_number[r1]].history) < HistoryCap)
      => \E i \in TurnsOf(r1), j \in TurnsOf(r2) : i # j

\* C17: the sender is called with the reply only after the provider call of
\* the request succeeded and its save was attempted; a request whose send was
\* refused, which is after its save succeeded, ends with the error response
\* and its turn is in the stored history
C17_SendAfterSaveTurnKept ==
  \A r \in Requests :
    /\ twilio_log[r] # <<>>
         => /\ Len(llm_log[r]) = 1
            /\ ai_response[r] \in Replies
            /\ "update_conversation" \in Range(store_log[r])
            /\ twilio_log[r][1].body = ai_response[r]
    /\ raised[r] = "DeliveryError"
         => /\ pc[r] = "done"
            /\ response[r] = InternalError
            /\ TurnsOf(r) # {}

\* the placeholder of the prompt's identity line (main.py:244)
UnknownName == "No proporcionado"

\* C18: the identity line of a prompt carries the name stored with the loaded
\* session, else the name found in the utterance, else the placeholder
C18_PromptIdentityLine ==
  [][\A r \in Requests :
       Prompts(r)
         => LET known == DictGet(conversation[r].user_data, "name", None)
                found == DetectName(user_message[r])
                line == llm_log'[r][Len(llm_log'[r])].nombre
            IN line = IF TruthyStr(known) THEN known
                      ELSE IF found # None THEN found
                      ELSE UnknownName]_vars

\* C19: in every stored history a turn is never older than a turn before it
C19_HistoryInTimeOrder ==
  \A k \in DOMAIN db :
    \A i, j \in 1..Len(db[k].history) :
      i < j => db[k].history[i].timestamp <= db[k].history[j].timestamp

\* a stored history ends with the turns of two requests, saved at two
\* different times, after turns that were there before
C19_Witness ==
  \E k \in DOMAIN db :
    LET h == db[k].history
    IN /\ Len(h) = HistoryCap
       /\ h[Len(h)].timestamp = 1
       /\ h[Len(h) - 1].timestamp = 0
       /\ h[Len(h) - 2].timestamp < 0

\* the request returns the ok response in this step
ReturnsOk(r) == response[r] = Pending /\ response'[r] = Ok

\* C20: when a request returns ok, the stored history of its sender holds a
\* turn with its utterance and the provider's reply, whatever the reply text
C20_OkHasAppendedTurn ==
  [][\A r \in Requests :
       ReturnsOk(r)
         => /\ from_number[r] \in DOMAIN db'
            /\ \E i \in 1..Len(db'[from_number[r]].history) :
                 /\ db'[from_number[r]].history[i].user = user_message[r]
                 /\ db'[from_number[r]].history[i].assistant = ai_response[r]
                 /\ db'[from_number[r]].history[i].timestamp >= 0]_vars

====
